---------------------------- MODULE Spec2Model ----------------------------
(***************************************************************************)
(* State-machine model of the bacterial-resistance pipeline:               *)
(*   - ContigDataGenerator (src/contigDataset.py): two instances built     *)
(*     from the same inputs, driven by on_epoch_end / __len__ /            *)
(*     __getitem__ calls;                                                  *)
(*   - masked_lengths (src/model.py);                                      *)
(*   - CNNModel construction, call (at the level of tensor shapes),        *)
(*     get_config and from_config (src/model.py).                          *)
(* Python sequences are 0-based; TLA+ sequences are 1-based, so the        *)
(* element a[i] of the code is a[i + 1] here.  Sample ids, labels and      *)
(* batch numbers keep their 0-based values.                                *)
(***************************************************************************)
EXTENDS Integers, Sequences, FiniteSets, TLC

VARIABLES
    labels,           \* self.labels: the integer class of each sample
    batch_size,       \* self.batch_size
    n_classes,        \* self.n_classes: None or <<c>>
    shuffle,          \* self.shuffle
    random_state,     \* the random_state argument: None or <<seed>>
    sequence_length,  \* self.sequence_length: None or <<maxlen>>
    ndims,            \* self.parser.ndims
    rg,               \* rg[g]: self.rg of instance g, None when never assigned
    indexes,          \* indexes[g]: self.indexes of instance g, None when never assigned
    epochs,           \* epochs[g]: on_epoch_end calls made on instance g after construction
    last,             \* the most recent call and what it returned
    mask,             \* the argument of masked_lengths
    uid,              \* Keras' per-process counter of automatically named MaxPool1D layers
    models,           \* the CNNModel objects built so far in this process
    configs           \* the dictionaries returned by get_config so far

genVars == <<labels, batch_size, n_classes, shuffle, random_state,
             sequence_length, ndims, rg, indexes, epochs>>
modelVars == <<uid, models, configs>>
vars == <<labels, batch_size, n_classes, shuffle, random_state,
          sequence_length, ndims, rg, indexes, epochs, last, mask,
          uid, models, configs>>

---------------------------------------------------------------------------
(* Bounds of the model.                                                    *)

MaxN == 4
MaxBatchSize == 2
MaxEpochs == 1
MaxWidth == 3
MaxRows == 2
MaxModels == 2
MaxBatch == 2
MaxNodes == 2
MaxClasses == 3

\* The values the inputs are drawn from.
Classes == {0, 1}
Seeds == {0, 1}
SequenceLengths == {2}

---------------------------------------------------------------------------
(* Python values.                                                          *)

None == <<>>
Some(v) == <<v>>
Val(o) == o[1]

Gens == {1, 2}

NoRet == [kind |-> "none", exc |-> "", value |-> 0, X |-> <<>>, y |-> <<>>, ids |-> <<>>]
Raise(e) == [NoRet EXCEPT !.kind = "error", !.exc = e]
Return(v) == [NoRet EXCEPT !.kind = "value", !.value = v]
Called(op, g, k, ret) == [op |-> op, g |-> g, k |-> k, ret |-> ret]
NoCall == Called("init", 0, 0, NoRet)

Max(S) == CHOOSE m \in S : \A x \in S : x <= m
Range(s) == {s[i] : i \in 1..Len(s)}

\* a[lo:hi] of Python for 0 <= lo <= hi: clipped to the array, never an error
Slice(a, lo, hi) ==
    LET l == IF lo > Len(a) THEN Len(a) ELSE lo
        h == IF hi > Len(a) THEN Len(a) ELSE hi
    IN  [i \in 1..(h - l) |-> a[l + i]]

---------------------------------------------------------------------------
(* The random generator.  numpy's PCG64 is represented by a full-period    *)
(* linear congruential generator: what the generator code relies on is     *)
(* that the state is a function of the seed, that each draw advances the   *)
(* state, and that shuffle is a Fisher-Yates pass over the array.          *)

RngMod == 64
RngMul == 13
RngInc == 7

RngNext(s) == (RngMul * s + RngInc) % RngMod
\* a draw in 0..hi from the state s
RngInterval(s, hi) == (s \div 4) % (hi + 1)

\* the seed argument dropped
default_rng_unseeded(seed, entropy) == RngNext(entropy)

\* np.random.default_rng(random_state): seeded from the argument, or from
\* the operating system's entropy when the argument is None
default_rng(seed, entropy) ==
    IF seed = None THEN RngNext(entropy) ELSE RngNext(Val(seed))

\* an assignment in place of the exchange
SwapCopies(a, i, j) == [a EXCEPT ![i] = a[j]]
Swap(a, i, j) == [a EXCEPT ![i] = a[j], ![j] = a[i]]

\* Generator.shuffle: for i in reversed(range(1, n)): j = interval(i); swap
RECURSIVE ShuffleFrom(_, _, _)
ShuffleFrom(a, s, i) ==
    IF i < 1 THEN [arr |-> a, rg |-> s]
    ELSE LET s1 == RngNext(s)
             j == RngInterval(s1, i)
         IN  ShuffleFrom(Swap(a, i + 1, j + 1), s1, i - 1)

rg_shuffle(a, s) == ShuffleFrom(a, s, Len(a) - 1)

np_arange(n) == [i \in 1..n |-> i - 1]

---------------------------------------------------------------------------
(* ContigDataGenerator.                                                    *)

folder == <<0>>
paths == [i \in 1..Len(labels) |-> <<10 + i>>]

\* os.path.join(folder, path) for a path relative to folder
os_path_join(f, p) == f \o p

\* contigParser.parsers: a parser maps (sample id, file path) to a 1-D
\* sequence of symbols 1..4, or to a 2-D contig (a sequence of nodes, each a
\* sequence of symbols); its output is a function of its two arguments.
ParseNode(id, fullpath, len) == [j \in 1..len |-> 1 + ((id + fullpath[Len(fullpath)] + j) % 4)]
parser(id, fullpath) ==
    IF ndims = 1 THEN ParseNode(id, fullpath, 1 + (id % 3))
    ELSE [nd \in 1..(1 + (id % 2)) |-> ParseNode(id + nd, fullpath, 1 + ((id + nd) % 3))]

\* the batch count rounded up
len_rounded_up == (Len(labels) + batch_size - 1) \div batch_size
__len__ == Len(labels) \div batch_size

\* __init__ seeds the generator only when shuffle is set (lines 63-65)
InitRg(entropy) == IF shuffle THEN Some(default_rng(random_state, entropy)) ELSE None

\* on_epoch_end (lines 87-91): the new (rg, indexes) of an instance
EpochEnd(r, ix) ==
    IF shuffle
    THEN LET sh == rg_shuffle(np_arange(Len(labels)), Val(r))
         IN  [rg |-> Some(sh.rg), indexes |-> Some(sh.arr)]
    ELSE [rg |-> r, indexes |-> ix]

\* keras pad_sequences(sequences, maxlen, padding='post', truncating='post'):
\* every row cut to its first maxlen entries and filled with trailing zeros;
\* maxlen None means the longest row, which does not exist for no rows
PadRow(s, maxlen) == [j \in 1..maxlen |-> IF j <= Len(s) THEN s[j] ELSE 0]
pad_sequences(sequences, maxlen) ==
    IF maxlen = None /\ Len(sequences) = 0 THEN Raise("ValueError")
    ELSE LET m == IF maxlen = None
                  THEN Max({Len(sequences[i]) : i \in 1..Len(sequences)})
                  ELSE Val(maxlen)
         IN  [NoRet EXCEPT !.kind = "value",
                           !.X = [i \in 1..Len(sequences) |-> PadRow(sequences[i], m)]]

\* keras to_categorical(y, num_classes): num_classes None is max(y) + 1 of
\* the y it is given; a class outside the width is an index error
OneHot(c, width) == [j \in 1..width |-> IF j = c + 1 THEN 1 ELSE 0]
to_categorical(y, num_classes) ==
    IF num_classes = None /\ Len(y) = 0 THEN Raise("ValueError")
    ELSE LET w == IF num_classes = None THEN Max(Range(y)) + 1 ELSE Val(num_classes)
         IN  IF \E i \in 1..Len(y) : y[i] >= w THEN Raise("IndexError")
             ELSE [NoRet EXCEPT !.kind = "value",
                                !.y = [i \in 1..Len(y) |-> OneHot(y[i], w)]]

\* labels taken by position in the batch
LabelsByPosition(temp_IDs) == [i \in 1..Len(temp_IDs) |-> labels[i]]

\* self.labels[temp_IDs] (line 112)
LabelsOf(temp_IDs) == [i \in 1..Len(temp_IDs) |-> labels[temp_IDs[i] + 1]]

\* lines 99-101
Sequences_(temp_IDs) ==
    [i \in 1..Len(temp_IDs) |->
        parser(temp_IDs[i], os_path_join(folder, paths[temp_IDs[i] + 1]))]

\* lines 104-110
PadBatch(sequences) ==
    IF ndims = 1 THEN pad_sequences(sequences, sequence_length)
    ELSE [NoRet EXCEPT !.kind = "value",
                       !.X = [i \in 1..Len(sequences) |->
                                 pad_sequences(sequences[i], sequence_length).X]]

__data_generation(temp_IDs) ==
    LET X == PadBatch(Sequences_(temp_IDs))
        y == to_categorical(LabelsOf(temp_IDs), n_classes)
    IN  IF X.kind = "error" THEN X
        ELSE IF y.kind = "error" THEN y
        ELSE [NoRet EXCEPT !.kind = "batch", !.X = X.X, !.y = y.y, !.ids = temp_IDs]

\* __getitem__ (lines 79-85) on an instance whose indexes attribute is ix
GetItem(ix, index) ==
    IF ix = None THEN Raise("AttributeError")
    ELSE __data_generation(Slice(Val(ix), index * batch_size, (index + 1) * batch_size))

---------------------------------------------------------------------------
(* The generator's calls.  Both instances are built from the same          *)
(* arguments; Init is the state after both constructors have returned.     *)

Optional(S) == {None} \cup {Some(v) : v \in S}

LabelArrays == UNION {[1..k -> Classes] : k \in 1..MaxN}

IdleModel ==
    /\ mask = <<>>
    /\ uid = 0
    /\ models = <<>>
    /\ configs = {}

\* The state after ContigDataGenerator(paths, labels, folder, ...) has
\* returned twice with the same arguments (the constructor ends with a call
\* of on_epoch_end); entropy[g] is what the operating system hands instance
\* g when there is no seed.
InitGenWith(NClasses, SeqLens, NDims, Entropies) ==
    /\ labels \in LabelArrays
    /\ batch_size \in 1..MaxBatchSize
    /\ n_classes \in NClasses
    /\ shuffle \in BOOLEAN
    \* the seed is read only when shuffle is set
    /\ random_state \in IF shuffle THEN Optional(Seeds) ELSE {None}
    /\ sequence_length \in SeqLens
    /\ ndims \in NDims
    /\ \E entropy \in Entropies :
          LET first == [g \in Gens |-> EpochEnd(InitRg(entropy[g]), None)]
          IN  /\ rg = [g \in Gens |-> first[g].rg]
              /\ indexes = [g \in Gens |-> first[g].indexes]
    /\ epochs = [g \in Gens |-> 0]
    /\ last = NoCall
    /\ IdleModel

\* One instance in use, over every parser and label configuration.
InitGen ==
    InitGenWith(Optional({1, 2}), Optional(SequenceLengths), {1, 2},
                {[g \in Gens |-> e] : e \in Seeds})

\* Two instances in use side by side, with a 1-D parser.
InitPair == InitGenWith({None}, {None}, {1}, [Gens -> Seeds])

on_epoch_end(g) ==
    /\ epochs[g] < MaxEpochs
    /\ LET e == EpochEnd(rg[g], indexes[g])
       IN  /\ rg' = [rg EXCEPT ![g] = e.rg]
           /\ indexes' = [indexes EXCEPT ![g] = e.indexes]
    /\ epochs' = [epochs EXCEPT ![g] = @ + 1]
    /\ last' = Called("on_epoch_end", g, 0, NoRet)
    /\ UNCHANGED <<labels, batch_size, n_classes, shuffle, random_state,
                   sequence_length, ndims, mask, uid, models, configs>>

len(g) ==
    /\ last' = Called("len", g, 0, Return(__len__))
    /\ UNCHANGED <<genVars, mask, modelVars>>

getitem(g, index) ==
    /\ last' = Called("getitem", g, index, GetItem(indexes[g], index))
    /\ UNCHANGED <<genVars, mask, modelVars>>

NextGen ==
    \/ on_epoch_end(1)
    \/ len(1)
    \/ \E index \in 0..__len__ : getitem(1, index)

SpecGen == InitGen /\ [][NextGen]_vars

NextPair ==
    \/ \E g \in Gens : on_epoch_end(g)
    \/ \E g \in Gens : len(g)
    \/ \E g \in Gens : \E index \in 0..__len__ : getitem(g, index)

SpecPair == InitPair /\ [][NextPair]_vars

---------------------------------------------------------------------------
(* Properties of the generator.                                            *)

n == Len(labels)
IsBatch == last.op = "getitem" /\ last.ret.kind = "batch"
IsPermutation(a) == Len(a) = n /\ Range(a) = 0..(n - 1)

\* C1: __len__ is floor(n / batch_size); every batch returned for an index
\* below __len__ has batch_size feature entries and batch_size label rows,
\* taken from the first __len__ * batch_size positions of the permutation,
\* so that the n mod batch_size trailing positions are never emitted.
C1_FullBatches ==
    /\ last.op = "len" =>
          /\ last.ret.value * batch_size <= n
          /\ n < (last.ret.value + 1) * batch_size
    /\ (IsBatch /\ last.k < __len__) =>
          /\ Len(last.ret.X) = batch_size
          /\ Len(last.ret.y) = batch_size
          /\ Len(last.ret.ids) = batch_size
          /\ \A i \in 1..batch_size :
                /\ last.k * batch_size + i <= (n \div batch_size) * batch_size
                /\ last.ret.ids[i] = Val(indexes[last.g])[last.k * batch_size + i]

C1_Witness ==
    /\ IsBatch
    /\ last.k < __len__
    /\ epochs[last.g] >= 1
    /\ batch_size >= 2
    /\ n % batch_size # 0

\* C2: whenever an instance holds an index array it is a permutation of
\* 0 .. n-1, the batches 0 .. __len__-1 of the epoch are pairwise disjoint,
\* and no returned batch repeats an index.
C2_NoIndexTwice ==
    /\ \A g \in Gens : indexes[g] # None =>
          /\ IsPermutation(Val(indexes[g]))
          /\ \A k1, k2 \in 0..(__len__ - 1) : k1 # k2 =>
                Range(Slice(Val(indexes[g]), k1 * batch_size, (k1 + 1) * batch_size))
                \cap Range(Slice(Val(indexes[g]), k2 * batch_size, (k2 + 1) * batch_size))
                = {}
    /\ IsBatch => Cardinality(Range(last.ret.ids)) = Len(last.ret.ids)

C2_Witness ==
    /\ IsBatch
    /\ epochs[last.g] >= 1
    /\ __len__ >= 2
    /\ batch_size >= 2
    /\ last.k = 1

\* the generator state after e further shuffles of an n-element array
RECURSIVE RgAfter(_, _)
RgAfter(s, e) == IF e = 0 THEN s ELSE RgAfter(rg_shuffle(np_arange(n), s).rg, e - 1)

\* C3: two instances built with the same inputs and the same integer seed
\* hold the same permutation, the same generator state and return the same
\* batches whenever they have been through the same number of epochs; the
\* generator state of an instance is the seeded state advanced by every
\* shuffle made so far (never the seeded state again).
C3_Reproducible ==
    (shuffle /\ random_state # None) =>
       /\ epochs[1] = epochs[2] =>
             /\ indexes[1] = indexes[2]
             /\ rg[1] = rg[2]
             /\ \A k \in 0..(__len__ - 1) :
                   GetItem(indexes[1], k) = GetItem(indexes[2], k)
       /\ \A g \in Gens :
             rg[g] = Some(RgAfter(RngNext(Val(random_state)), epochs[g] + 1))

C3_Witness ==
    /\ shuffle
    /\ random_state # None
    /\ epochs[1] = 1
    /\ epochs[2] = 1
    /\ IsBatch
    /\ last.g = 2
    /\ indexes[1] # Some(rg_shuffle(np_arange(n), RngNext(Val(random_state))).arr)

\* C4 (the claim as stated): a batch index at or beyond __len__ is an
\* error and returns no batch.
\* It is stated for the indices that still reach into the permutation (33
\* samples, batches of 16, index 2), where the slice is not empty.
C4_OutOfRangeFails ==
    (last.op = "getitem" /\ last.k >= __len__ /\ last.k * batch_size < n) =>
       last.ret.kind = "error"

\* C5 (the claim as stated): every label matrix has the width n_classes
\* when it is given and max(labels) + 1 over the whole label array otherwise.
C5_FixedLabelWidth ==
    IsBatch =>
       \A i \in 1..Len(last.ret.y) :
          Len(last.ret.y[i]) =
             IF n_classes # None THEN Val(n_classes) ELSE Max(Range(labels)) + 1

\* x is raw cut or filled with trailing zeros
IsPadded(x, raw) ==
    /\ \A j \in 1..Len(x) : x[j] = IF j <= Len(raw) THEN raw[j] ELSE 0
    /\ IF sequence_length = None THEN Len(x) >= Len(raw)
       ELSE Len(x) = Val(sequence_length)

\* C9: in every returned batch, entry i of the features and row i of the
\* labels belong to the same sample p = indexes[k * batch_size + i]: the
\* features are the padded parser output for folder/paths[p], the label row
\* is the one-hot row of labels[p].
C9_SampleLabelOrder ==
    IsBatch =>
       /\ Len(last.ret.X) = Len(last.ret.ids)
       /\ Len(last.ret.y) = Len(last.ret.ids)
       /\ \A i \in 1..Len(last.ret.ids) :
             LET p == Val(indexes[last.g])[last.k * batch_size + i]
                 raw == parser(p, folder \o paths[p + 1])
             IN  /\ last.ret.ids[i] = p
                 /\ \A j \in 1..Len(last.ret.y[i]) :
                       last.ret.y[i][j] = IF j = labels[p + 1] + 1 THEN 1 ELSE 0
                 /\ labels[p + 1] + 1 <= Len(last.ret.y[i])
                 /\ IF ndims = 1 THEN IsPadded(last.ret.X[i], raw)
                    ELSE /\ Len(last.ret.X[i]) = Len(raw)
                         /\ \A nd \in 1..Len(raw) : IsPadded(last.ret.X[i][nd], raw[nd])

C9_Witness ==
    /\ IsBatch
    /\ batch_size >= 2
    /\ last.k < __len__
    /\ last.ret.ids[1] > last.ret.ids[2]
    /\ last.ret.y[1] # last.ret.y[2]
    /\ last.ret.X[1] # last.ret.X[2]

\* C10 (the claim as stated): without shuffling, batch k below __len__ is
\* returned and holds the samples k * batch_size .. (k + 1) * batch_size - 1
\* in their original order.
C10_UnshuffledUsable ==
    (~shuffle /\ last.op = "getitem" /\ last.k < __len__
        /\ (n_classes = None \/ \A i \in 1..n : labels[i] < Val(n_classes))) =>
       /\ last.ret.kind = "batch"
       /\ last.ret.ids = [i \in 1..batch_size |-> last.k * batch_size + i - 1]

---------------------------------------------------------------------------
(* masked_lengths and the masked branch of Resizing1D.call.                *)

embed_dim == 4
sequence_target_length == 100
conv_filters_1 == 12
conv_window_length_1 == 8
pool_size_1 == 8
dense_units_1 == 32
dense_units_2 == 64
\* the rows of embed_init_w
embed_init_rows == 5

Reverse(row) == [i \in 1..Len(row) |-> row[Len(row) + 1 - i]]

\* tf.math.argmax over booleans: the 0-based position of the first largest
\* entry, which is position 0 when no entry is True
ArgMax(row) ==
    IF \E i \in 1..Len(row) : row[i]
    THEN (CHOOSE i \in 1..Len(row) : row[i] /\ \A j \in 1..(i - 1) : ~row[j]) - 1
    ELSE 0

\* tf.shape(mask)[1] - argmax(mask[:, ::-1], axis=1), row by row
masked_lengths(m) == [r \in 1..Len(m) |-> Len(m[r]) - ArgMax(Reverse(m[r]))]

\* Resizing1D.call with a mask (lines 94-106): row r is cut to its first
\* lengths[r] positions and resized to the target width
Resizing1D_call(m) ==
    LET lengths == masked_lengths(m)
    IN  [r \in 1..Len(m) |->
            [kept |-> lengths[r], shape |-> <<sequence_target_length, embed_dim>>]]

Masks == UNION {[1..r -> [1..w -> BOOLEAN]] : r \in 1..MaxRows, w \in 1..MaxWidth}

IdleGen ==
    /\ labels = <<0>>
    /\ batch_size = 1
    /\ n_classes = None
    /\ shuffle = FALSE
    /\ random_state = None
    /\ sequence_length = None
    /\ ndims = 1
    /\ rg = [g \in Gens |-> None]
    /\ indexes = [g \in Gens |-> None]
    /\ epochs = [g \in Gens |-> 0]

InitMask ==
    /\ mask \in Masks
    /\ last = NoCall
    /\ uid = 0
    /\ models = <<>>
    /\ configs = {}
    /\ IdleGen

call_masked_lengths ==
    /\ last' = Called("masked_lengths", 0, 0, Return(masked_lengths(mask)))
    /\ UNCHANGED <<genVars, mask, modelVars>>

call_Resizing1D ==
    /\ last' = Called("Resizing1D.call", 0, 0, Return(Resizing1D_call(mask)))
    /\ UNCHANGED <<genVars, mask, modelVars>>

NextMask == call_masked_lengths \/ call_Resizing1D

SpecMask == InitMask /\ [][NextMask]_vars

\* a row of width w whose first l entries are True and the others False
SequenceMask(l, w) == [i \in 1..w |-> i <= l]

\* C8 (the claim as stated): a row whose first L entries are True and whose
\* W - L others are False has length L, for every L in 0 .. W.
C8_RecoversLength ==
    last.op = "masked_lengths" =>
       \A r \in 1..Len(mask) : \A l \in 0..Len(mask[r]) :
          mask[r] = SequenceMask(l, Len(mask[r])) => last.ret.value[r] = l

\* what holds of the code: the same for every L from 1 to W
C8_RecoversLengthFromOne ==
    last.op = "masked_lengths" =>
       \A r \in 1..Len(mask) : \A l \in 1..Len(mask[r]) :
          mask[r] = SequenceMask(l, Len(mask[r])) => last.ret.value[r] = l

---------------------------------------------------------------------------
(* CNNModel.  Tensors are represented by their shapes; a ragged contig is  *)
(* the sequence of its node lengths.                                       *)

\* a layer name: base, or base_k for the k-th automatically named layer of
\* its class in the process (k = 0 is the bare class name)
LayerName(base, k) == [base |-> base, k |-> k]

\* CNNModel.__init__ (lines 123-196): model.layers in attribute order; every
\* layer is given a name except maxpool, which Keras names from its class
\* and the process-wide count of such names
CNNModel(voc_size, nc, u) ==
    [name |-> "cnnmodel", n_classes |-> nc, voc_size |-> voc_size,
     layers |-> << LayerName("embed_layer", 0), LayerName("resizer", 0),
                   LayerName("conv1", 0), LayerName("max_pooling1d", u),
                   LayerName("globalmaxpool", 0), LayerName("dense1", 0),
                   LayerName("dense2", 0), LayerName("dropout", 0),
                   LayerName("classifier", 0), LayerName("globalaveragepool", 0) >>]

\* tf.squeeze without an axis: every dimension of size 1 is removed
RECURSIVE Squeeze(_)
Squeeze(shape) ==
    IF shape = <<>> THEN <<>>
    ELSE IF Head(shape) = 1 THEN Squeeze(Tail(shape))
    ELSE <<Head(shape)>> \o Squeeze(Tail(shape))

\* __transform_contig (lines 199-246) on a contig of Len(contig) nodes
transform_contig(m, contig, training) ==
    LET embedded == [i \in 1..Len(contig) |-> <<contig[i], embed_dim>>]
        resized == <<Len(embedded), sequence_target_length, embed_dim>>
        conv == <<resized[1], resized[2] - conv_window_length_1 + 1, conv_filters_1>>
        pooled == <<conv[1], ((conv[2] - pool_size_1) \div pool_size_1) + 1, conv[3]>>
        d1 == <<pooled[1], pooled[2], dense_units_1>>
        gmax == <<d1[1], d1[3]>>
        d2 == <<gmax[1], dense_units_2>>
        \* Dropout(x, training=training): the same shape, active or not
        dropped == d2
        classified == <<dropped[1], m.n_classes>>
        voted == <<1, classified[2]>>
    IN  Squeeze(voted)

\* CNNModel.call (lines 256-278): map_fn over the contigs with the output
\* signature TensorSpec(shape=[2]); the embedding table is built from the
\* 5 x 4 initial weights reshaped to voc_size x embed_dim
model_call(m, inputs, training) ==
    IF m.voc_size * embed_dim # embed_init_rows * embed_dim THEN Raise("ValueError")
    ELSE IF \E i \in 1..Len(inputs) :
               transform_contig(m, inputs[i], training # None /\ Val(training)) # <<2>>
    THEN Raise("ValueError")
    ELSE [NoRet EXCEPT !.kind = "value", !.X = <<Len(inputs), 2>>,
                       !.ids = [i \in 1..Len(inputs) |-> Len(inputs[i])]]

\* layer.get_config(): the constructor arguments of the layer, its name
\* among them, with no record of the layer's class
layer_get_config(layer) == [name |-> layer, trainable |-> TRUE]

\* CNNModel.get_config (lines 280-286)
model_get_config(m) ==
    [name |-> m.name, n_classes |-> m.n_classes, voc_size |-> m.voc_size,
     layers |-> [i \in 1..Len(m.layers) |-> layer_get_config(m.layers[i])]]

\* tf.keras.layers.deserialize: needs {"class_name": ..., "config": ...}
deserialize_ok(layer_config) ==
    "class_name" \in DOMAIN layer_config /\ "config" \in DOMAIN layer_config

\* CNNModel.from_config (lines 288-304): a new model is constructed, which
\* takes the next automatic name, and each of its layers is looked up by
\* name in the stored layer configurations and deserialized; the first
\* layer that fails ends the call.  model.layers[idx] = ... assigns into a
\* copy of the layer list, so a returned model keeps the layers it was
\* constructed with.
RECURSIVE ReplaceLayers(_, _, _)
ReplaceLayers(model, layer_configs, idx) ==
    IF idx > Len(model.layers) THEN [NoRet EXCEPT !.kind = "model", !.X = model]
    ELSE IF ~\E c \in layer_configs : c.name = model.layers[idx] THEN Raise("KeyError")
    ELSE IF ~deserialize_ok(CHOOSE c \in layer_configs : c.name = model.layers[idx])
    THEN Raise("ValueError")
    ELSE ReplaceLayers(model, layer_configs, idx + 1)

model_from_config(config, u) ==
    LET model == CNNModel(config.voc_size, config.n_classes, u)
        layer_configs == Range(config.layers)
        \* recorded with the result: the layer names with no stored configuration
        missing == {nm \in Range(model.layers) : ~\E c \in layer_configs : c.name = nm}
    IN  [ReplaceLayers(model, layer_configs, 1) EXCEPT !.y = missing]

VocSizes == {5, 6}
NodeLengths == {1, 7}
Contigs == UNION {[1..k -> NodeLengths] : k \in 1..MaxNodes}
Batches == UNION {[1..b -> Contigs] : b \in 1..MaxBatch}

InitModel ==
    /\ uid = 0
    /\ models = <<>>
    /\ configs = {}
    /\ mask = <<>>
    /\ last = NoCall
    /\ IdleGen

\* m = CNNModel(voc_size=..., n_classes=...)
new_model(voc_size, nc) ==
    /\ uid < MaxModels
    /\ models' = Append(models, CNNModel(voc_size, nc, uid))
    /\ uid' = uid + 1
    /\ last' = Called("CNNModel", Len(models) + 1, 0, NoRet)
    /\ UNCHANGED <<genVars, mask, configs>>

\* models[m](inputs, training=...)
call(m, inputs, training) ==
    /\ last' = Called("call", m, 0, model_call(models[m], inputs, training))
    /\ UNCHANGED <<genVars, mask, modelVars>>

\* models[m].get_config()
get_config(m) ==
    /\ configs' = configs \cup {model_get_config(models[m])}
    /\ last' = Called("get_config", m, 0, [NoRet EXCEPT !.kind = "value", !.X = model_get_config(models[m])])
    /\ UNCHANGED <<genVars, mask, uid, models>>

\* CNNModel.from_config(config) in the process that holds the models
from_config(config) ==
    /\ uid < MaxModels
    /\ LET r == model_from_config(config, uid)
       IN  /\ last' = Called("from_config", 0, 0, [r EXCEPT !.ids = config])
           /\ models' = IF r.kind = "model" THEN Append(models, r.X) ELSE models
    /\ uid' = uid + 1
    /\ UNCHANGED <<genVars, mask, configs>>

NextModel ==
    \/ \E v \in VocSizes, nc \in 1..MaxClasses : new_model(v, nc)
    \/ \E m \in 1..Len(models), inputs \in Batches, training \in Optional(BOOLEAN) :
          call(m, inputs, training)
    \/ \E m \in 1..Len(models) : get_config(m)
    \/ \E config \in configs : from_config(config)

SpecModel == InitModel /\ [][NextModel]_vars

\* C6 (the claim as stated): call on B contigs returns a B x n_classes
\* matrix whatever the class count (the embedding table being the 5-symbol
\* one the initial weights are written for).
C6_BatchByClasses ==
    (last.op = "call" /\ models[last.g].voc_size = embed_init_rows
        /\ models[last.g].n_classes >= 2) =>
       /\ last.ret.kind = "value"
       /\ last.ret.X[2] = models[last.g].n_classes

\* C7 (the claim as stated): from_config(m.get_config()) succeeds and
\* yields a model with the layer names, n_classes and voc_size of m.
C7_ConfigRoundTrip ==
    last.op = "from_config" =>
       /\ last.ret.kind = "model"
       /\ {c.name : c \in Range(last.ret.ids.layers)} = Range(last.ret.X.layers)
       /\ last.ret.X.n_classes = last.ret.ids.n_classes
       /\ last.ret.X.voc_size = last.ret.ids.voc_size

=============================================================================
